---- MODULE Spec2Model ----
(***************************************************************************)
(* Quick Notes API: NotesService (create, findAll, findOne, update,        *)
(* remove) over NotesRepository (readNotes, writeNotes) and the JSON file  *)
(* data/notes.json.                                                        *)
(*                                                                         *)
(* Every request is an async call: it runs synchronously up to its next    *)
(* await, and the file system calls of different requests interleave.      *)
(* fs.writeFile opens the file with flag 'w' (which truncates it) and then *)
(* writes the text from offset 0 of its own descriptor: two steps.         *)
(***************************************************************************)
EXTENDS Integers, Sequences, FiniteSets, TLC

\* ---------------------------------------------------------------- bounds
MaxNotes == 3          \* ids uuidv4() has handed out by the end of a run
MaxTime == 1           \* largest value of the millisecond clock
MaxCalls == 2          \* service calls started in one run

Procs == {"r1", "r2"}  \* requests in flight at the same time

\* ------------------------------------------------------------ JS values
Ids == 1..MaxNotes
\* an id no uuidv4() call returns
NoSuchId == MaxNotes + 1

\* new Date(): a Date object holding the clock's reading
Date(t) == <<"Date", t>>
\* an ISO 8601 string naming the instant t
IsoString(t) == <<"string", t>>

\* Date.prototype.toJSON (what JSON.stringify calls on a Date)
toISOString(v) == IF v[1] = "Date" THEN IsoString(v[2]) ELSE v

DateKeys == {"createdAt", "updatedAt"}

\* the bodies POST /notes passes on (tags is optional)
CreateNoteDtos ==
  { [title |-> "T1", content |-> "C1", tags |-> <<"b", "a">>],
    [title |-> "T2", content |-> "C2"] }

\* the bodies PATCH /notes/:id passes on: any subset of title, content and
\* tags, and bodies that carry keys the DTO does not declare
UpdateNoteDtos ==
  { [title |-> "Z"],
    [content |-> "C3", tags |-> <<"x", "y">>],
    [id |-> 1, createdAt |-> IsoString(MaxTime)] }

\* the query strings GET /notes comes with: none, ?search= and ?search=t1
Queries == { [present |-> FALSE], [search |-> ""], [search |-> "t1"] }

\* object spread {...a, ...b}: the keys of both, b's value where both have one
Spread(a, b) ==
  [k \in DOMAIN a \cup DOMAIN b |-> IF k \in DOMAIN b THEN b[k] ELSE a[k]]

\* ------------------------------------------------------------ JSON text
\* The text of the file, as a sequence of tokens: "[", one token per object,
\* "]". (Commas carry nothing.)
LBracket == [tok |-> "["]
RBracket == [tok |-> "]"]
ObjectTok(o) == [tok |-> "{}", obj |-> o]

\* the keys UpdateNoteDto declares, each optional
PatchKeys == {"title", "content", "tags"}

\* the value undefined, as it is written here under key k: a string under
\* title and content, a sequence under tags (no body carries it as a title,
\* a content or a tag)
Undefined(k) == IF k = "tags" THEN <<"undefined">> ELSE "undefined"

\* the keys JSON.stringify writes: it leaves out a key whose value is
\* undefined
WrittenKeys(n) ==
  {k \in DOMAIN n : ~(k \in PatchKeys /\ n[k] = Undefined(k))}

\* JSON.stringify of one note: a Date becomes its ISO string
NoteToJson(n) ==
  [k \in WrittenKeys(n) |-> IF k \in DateKeys THEN toISOString(n[k]) ELSE n[k]]

\* JSON.stringify(notes)
JsonStringify(notes) ==
  <<LBracket>> \o [i \in 1..Len(notes) |-> ObjectTok(NoteToJson(notes[i]))]
               \o <<RBracket>>

\* JSON.parse(text) returns (does not throw SyntaxError)
ParseOk(text) ==
  /\ Len(text) >= 2
  /\ text[1] = LBracket
  /\ text[Len(text)] = RBracket
  /\ \A i \in 2..(Len(text) - 1) : text[i].tok = "{}"

\* a parse that loses the last element of the array
JsonParseShort(text) == [i \in 1..(Len(text) - 3) |-> text[i + 1].obj]

\* JSON.parse(text): the dates stay the strings they are in the text
JsonParse(text) == [i \in 1..(Len(text) - 2) |-> text[i + 1].obj]

\* the first step of fs.writeFile: open(path, 'w') truncates the file
TruncatedText == <<>>

\* the second step of fs.writeFile: write(fd, data) at offset 0 of a
\* descriptor opened earlier; bytes of the file beyond the data stay
WriteAtStart(data, text) == data \o SubSeq(text, Len(data) + 1, Len(text))

\* ------------------------------------------------------- array helpers
\* findIndex with its -1 taken as an index from the end, as splice(-1, 1) does
FindIndexOrLast(notes, id) ==
  IF \E i \in 1..Len(notes) : notes[i].id = id
  THEN CHOOSE i \in 1..Len(notes) :
         /\ notes[i].id = id
         /\ \A j \in 1..(i - 1) : notes[j].id # id
  ELSE Len(notes)

\* a search that starts at the second element
FindIndexAfterFirst(notes, id) ==
  IF \E i \in 2..Len(notes) : notes[i].id = id
  THEN CHOOSE i \in 2..Len(notes) :
         /\ notes[i].id = id
         /\ \A j \in 2..(i - 1) : notes[j].id # id
  ELSE 0

\* notes.findIndex((n) => n.id === id), 1-based; 0 stands for -1
FindIndex(notes, id) ==
  IF \E i \in 1..Len(notes) : notes[i].id = id
  THEN CHOOSE i \in 1..Len(notes) :
         /\ notes[i].id = id
         /\ \A j \in 1..(i - 1) : notes[j].id # id
  ELSE 0

\* notes.unshift(newNote)
Unshift(notes, newNote) == <<newNote>> \o notes

\* notes.push(newNote)
Push(notes, newNote) == Append(notes, newNote)

\* splice one place too far: notes.splice(noteIndex + 1, 1)
SpliceNext(notes, noteIndex) ==
  SubSeq(notes, 1, noteIndex) \o SubSeq(notes, noteIndex + 2, Len(notes))

\* notes.splice(noteIndex, 1)
Splice(notes, noteIndex) ==
  SubSeq(notes, 1, noteIndex - 1) \o SubSeq(notes, noteIndex + 1, Len(notes))

\* create that stores no tags: `tags: []`
NewNoteUntagged(id, createNoteDto, now) ==
  Spread(Spread([id |-> id], createNoteDto),
         [tags |-> <<>>, createdAt |-> now, updatedAt |-> now])

\* create that makes the id from the clock: `id: String(Date.now())`
NewNoteClockId(id, createNoteDto, now) ==
  Spread(Spread([id |-> now[2] + 1], createNoteDto),
         [tags |-> IF "tags" \in DOMAIN createNoteDto
                   THEN createNoteDto.tags ELSE <<>>,
          createdAt |-> now,
          updatedAt |-> now])

\* the object literal of create
NewNote(id, createNoteDto, now) ==
  Spread(Spread([id |-> id], createNoteDto),
         [tags |-> IF "tags" \in DOMAIN createNoteDto
                   THEN createNoteDto.tags ELSE <<>>,
          createdAt |-> now,
          updatedAt |-> now])

\* update that replaces the record instead of merging into it: what the
\* patch leaves out is reset
UpdatedNoteReplacing(note, updateNoteDto, now) ==
  Spread(Spread([id |-> note.id, title |-> "", content |-> "", tags |-> <<>>,
                 createdAt |-> note.createdAt],
                updateNoteDto),
         [updatedAt |-> now])

\* update that stamps the record with new Date(0) instead of new Date()
UpdatedNoteEpoch(note, updateNoteDto, now) ==
  Spread(Spread(note, updateNoteDto), [updatedAt |-> Date(0)])

\* update that leaves updatedAt as it finds it
UpdatedNoteUnstamped(note, updateNoteDto, now) == Spread(note, updateNoteDto)

\* the object literal of update
UpdatedNote(note, updateNoteDto, now) ==
  Spread(Spread(note, updateNoteDto), [updatedAt |-> now])

\* the updated note put at the end: splice(noteIndex, 1) and push(updatedNote)
SetAtEnd(notes, noteIndex, updatedNote) ==
  Append(SubSeq(notes, 1, noteIndex - 1) \o SubSeq(notes, noteIndex + 1, Len(notes)),
         updatedNote)

\* notes[noteIndex] = updatedNote
SetAt(notes, noteIndex, updatedNote) ==
  [notes EXCEPT ![noteIndex] = updatedNote]

\* ---------------------------------------------------------------- results
NoResult == [kind |-> "none"]
Returned(v) == [kind |-> "ok", value |-> v]
\* remove resolves with no value
ReturnedVoid == [kind |-> "ok"]
NotFoundException == [kind |-> "NotFoundException"]
SyntaxError == [kind |-> "SyntaxError"]
\* the Error a rejected fs call carries (EACCES, EIO, ENOSPC, ...)
SystemError == [kind |-> "SystemError"]

NoCall == [name |-> "none"]

\* ------------------------------------------------------------------ state
VARIABLES
  file,      \* the text of data/notes.json
  clock,     \* the millisecond clock new Date() reads
  uuids,     \* how many ids uuidv4() has handed out
  calls,     \* how many service calls have started
  pc,        \* per request: idle, read, open, write, done
  call,      \* per request: the service method and its arguments
  loaded,    \* per request: what readNotes returned to it
  notes,     \* per request: its local array `notes` when it calls writeNotes
  result,    \* per request: what the call returned or threw
  \* history, read by no action:
  lastCreated, \* the note the latest create returned, while the file has not
               \* been written to since
  missed,      \* per request: the ids of the notes whose create returned
               \* between the request's readNotes and its writeNotes
  removed,     \* the ids some remove has returned for
  stale,       \* per request: the ids some remove returned for after the
               \* request's readNotes and before its writeNotes resolved
  gone,        \* the ids a remove has returned for, having loaded one record
               \* with that id, and that no request has since written with
               \* the id in its patch or in `stale`
  lastSaved,   \* the array the latest writeNotes that resolved was called
               \* with, while no writeNotes has been called since
  io,          \* per request: the repository methods the call has called, in
               \* order
  issued       \* the ids create has put in the records it made

vars == <<file, clock, uuids, calls, pc, call, loaded, notes, result,
          lastCreated, missed, removed, stale, gone, lastSaved, io, issued>>

NoNote == [id |-> NoSuchId]

NoSave == [saved |-> FALSE]
Saved(ns) == [saved |-> TRUE, notes |-> ns]

\* a note an earlier run of the program created and stored
StoredNote(id, createNoteDto) == NoteToJson(NewNote(id, createNoteDto, Date(0)))

\* data/notes.json as the program finds it when it starts: absent on a fresh
\* installation, or the file an earlier run left (with the ids that run
\* handed out)
NoFile == [exists |-> FALSE]
ExistingFile(text) == [exists |-> TRUE, text |-> text]

PriorInstallations ==
  { [found |-> NoFile, uuids |-> 0],
    [found |-> ExistingFile(JsonStringify(
                 <<StoredNote(1, [title |-> "T1", content |-> "C1", tags |-> <<"a">>]),
                   StoredNote(2, [title |-> "T2", content |-> "C2"])>>)),
     uuids |-> 2] }

\* an initialization that writes '[]' whether or not the file exists
resetDataFile(found) == <<LBracket, RBracket>>

\* ensureDataFileExists: if (!fs.existsSync(filePath)) writeFileSync(filePath,
\* '[]'); gives the text of the file afterwards
ensureDataFileExists(found) ==
  IF found.exists THEN found.text ELSE <<LBracket, RBracket>>

\* what the constructor leaves behind
InitialFiles ==
  { [text |-> ensureDataFileExists(f.found), uuids |-> f.uuids] :
      f \in PriorInstallations }

\* the state right after the repository's constructor has left the file f
Constructed(f) ==
  /\ file = f.text
  /\ uuids = f.uuids
  /\ clock = 0
  /\ calls = 0
  /\ pc = [p \in Procs |-> "idle"]
  /\ call = [p \in Procs |-> NoCall]
  /\ loaded = [p \in Procs |-> <<>>]
  /\ notes = [p \in Procs |-> <<>>]
  /\ result = [p \in Procs |-> NoResult]
  /\ lastCreated = NoNote
  /\ missed = [p \in Procs |-> {}]
  /\ removed = {}
  /\ stale = [p \in Procs |-> {}]
  /\ gone = {}
  /\ lastSaved = NoSave
  /\ io = [p \in Procs |-> <<>>]
  /\ issued = {}

Init == \E f \in InitialFiles : Constructed(f)

\* the ids a caller may pass: every id handed out so far, and one that never was
KnownIds == (1..uuids) \cup {NoSuchId}

\* the slots are alike, so a request takes the first free one: "r1" when it
\* is free, "r2" otherwise
FirstFree == IF pc["r1"] \in {"idle", "done"} THEN "r1" ELSE "r2"

\* a request comes in on a slot that is free (the previous call on it, if
\* any, has returned or thrown) and the service method is called
Start(p, c) ==
  /\ pc[p] \in {"idle", "done"}
  /\ p = FirstFree
  /\ calls < MaxCalls
  /\ calls' = calls + 1
  /\ call' = [call EXCEPT ![p] = c]
  /\ pc' = [pc EXCEPT ![p] = "read"]
  /\ loaded' = [loaded EXCEPT ![p] = <<>>]
  /\ notes' = [notes EXCEPT ![p] = <<>>]
  /\ result' = [result EXCEPT ![p] = NoResult]
  /\ missed' = [missed EXCEPT ![p] = {}]
  /\ stale' = [stale EXCEPT ![p] = {}]
  /\ io' = [io EXCEPT ![p] = <<"readNotes">>]
  /\ UNCHANGED <<file, lastCreated, removed, gone, lastSaved>>

\* the readings new Date() can give: the clock's last reading, or a later one
\* when time has passed since
Now == {t \in {clock, clock + 1} : t <= MaxTime}

\* create, up to `await this.repository.readNotes()`
CreateBegin(p) ==
  /\ uuids < MaxNotes
  /\ \E dto \in CreateNoteDtos, t \in Now :
       /\ clock' = t
       /\ Start(p, [name |-> "create",
                    createNoteDto |-> dto,
                    newNote |-> NewNote(uuids + 1, dto, Date(t))])
  /\ uuids' = uuids + 1
  /\ issued' = issued \cup {call'[p].newNote.id}

\* GET /notes and GET /notes?search=...: getAllNotes declares no @Query
\* parameter and calls findAll() without an argument, so the query the
\* request came with (kept here as `query`) reaches no code
FindAllBegin(p) ==
  /\ \E q \in Queries : Start(p, [name |-> "findAll", query |-> q])
  /\ UNCHANGED <<uuids, issued, clock>>

FindOneBegin(p) ==
  /\ \E id \in KnownIds : Start(p, [name |-> "findOne", id |-> id])
  /\ UNCHANGED <<uuids, issued, clock>>

\* the ids uuidv4() has made that no response and no saved file shows yet:
\* those of the creates still on their way to the file
Unpublished ==
  { call[q].newNote.id :
      q \in {r \in Procs : call[r].name = "create"
                            /\ pc[r] \in {"read", "open", "write"}} }

\* the ids a client can have seen; a uuidv4 cannot be guessed, so an id a
\* client sends in a body is one of these
Published == (1..uuids) \ Unpublished

UpdateBegin(p) ==
  /\ \E id \in KnownIds, dto \in UpdateNoteDtos :
       /\ ("id" \in DOMAIN dto) => dto.id \in Published
       /\ Start(p, [name |-> "update", id |-> id, updateNoteDto |-> dto])
  /\ UNCHANGED <<uuids, issued, clock>>

RemoveBegin(p) ==
  /\ \E id \in KnownIds : Start(p, [name |-> "remove", id |-> id])
  /\ UNCHANGED <<uuids, issued, clock>>

\* the service keeps the array it saved last and uses it instead of `ns`
LoadCached(p, ns) ==
  loaded' = [loaded EXCEPT ![p] = IF lastSaved.saved THEN lastSaved.notes ELSE ns]

\* readNotes has resolved with `ns`
Load(p, ns) == loaded' = [loaded EXCEPT ![p] = ns]

\* the call returns `r`
Return(p, r) ==
  /\ pc' = [pc EXCEPT ![p] = "done"]
  /\ result' = [result EXCEPT ![p] = r]

\* the call throws an HTTP exception made in place of `e`
ThrowWrapped(p, e) ==
  /\ pc' = [pc EXCEPT ![p] = "done"]
  /\ result' = [result EXCEPT ![p] = [kind |-> "InternalServerErrorException"]]
  /\ UNCHANGED <<file, notes, lastSaved, io>>

\* the call throws `e` with the file already opened for writing
ThrowTruncating(p, e) ==
  /\ pc' = [pc EXCEPT ![p] = "done"]
  /\ result' = [result EXCEPT ![p] = e]
  /\ file' = <<>>
  /\ UNCHANGED <<notes, lastSaved, io>>

\* the call throws `e` before it has called writeNotes
Throw(p, e) ==
  /\ pc' = [pc EXCEPT ![p] = "done"]
  /\ result' = [result EXCEPT ![p] = e]
  /\ UNCHANGED <<file, notes, lastSaved, io>>

\* the call goes on to `this.repository.writeNotes(ns)` without awaiting it,
\* and returns
CallWriteNotesDetached(p, ns) ==
  /\ pc' = [pc EXCEPT ![p] = "done"]
  /\ notes' = [notes EXCEPT ![p] = ns]
  /\ result' = [result EXCEPT ![p] = ReturnedVoid]
  /\ lastSaved' = NoSave
  /\ io' = [io EXCEPT ![p] = Append(io[p], "writeNotes")]
  /\ UNCHANGED file

\* the call goes on to `await this.repository.writeNotes(ns)`
CallWriteNotes(p, ns) ==
  /\ pc' = [pc EXCEPT ![p] = "open"]
  /\ notes' = [notes EXCEPT ![p] = ns]
  /\ lastSaved' = NoSave
  /\ io' = [io EXCEPT ![p] = Append(io[p], "writeNotes")]
  /\ UNCHANGED <<file, result>>

\* readNotes: readFile resolves with the file's text and JSON.parse throws,
\* which every service method lets through
ReadFails(p) ==
  /\ pc[p] = "read"
  /\ ~ParseOk(file)
  /\ Throw(p, SyntaxError)
  /\ UNCHANGED <<clock, uuids, issued, calls, call, loaded, lastCreated, missed, removed, stale, gone>>

\* create, from readNotes' result to the call of writeNotes
CreateLoaded(p) ==
  /\ pc[p] = "read"
  /\ call[p].name = "create"
  /\ ParseOk(file)
  /\ Load(p, JsonParse(file))
  /\ CallWriteNotes(p, Push(JsonParse(file), call[p].newNote))
  /\ UNCHANGED <<clock, uuids, issued, calls, call, lastCreated, missed, removed, stale, gone>>

\* a findAll that saves the array it has read
FindAllLoadedSaving(p) ==
  /\ pc[p] = "read"
  /\ call[p].name = "findAll"
  /\ ParseOk(file)
  /\ Load(p, JsonParse(file))
  /\ CallWriteNotes(p, JsonParse(file))
  /\ UNCHANGED <<clock, uuids, issued, calls, call, lastCreated, missed, removed, stale, gone>>

\* findAll, from readNotes' result to its return
FindAllLoaded(p) ==
  /\ pc[p] = "read"
  /\ call[p].name = "findAll"
  /\ ParseOk(file)
  /\ Load(p, JsonParse(file))
  /\ Return(p, Returned(JsonParse(file)))
  /\ UNCHANGED <<file, clock, uuids, issued, calls, call, notes, lastCreated, missed, removed, stale, gone, lastSaved, io>>

FindOneLoaded(p) ==
  /\ pc[p] = "read"
  /\ call[p].name = "findOne"
  /\ ParseOk(file)
  /\ Load(p, JsonParse(file))
  /\ LET ns == JsonParse(file)
         i == FindIndex(ns, call[p].id)
     IN  IF i = 0
         THEN Throw(p, NotFoundException)
         ELSE Return(p, Returned(ns[i])) /\ UNCHANGED <<file, notes, lastSaved, io>>
  /\ UNCHANGED <<clock, uuids, issued, calls, call, lastCreated, missed, removed, stale, gone>>

UpdateLoaded(p) ==
  /\ pc[p] = "read"
  /\ call[p].name = "update"
  /\ ParseOk(file)
  /\ Load(p, JsonParse(file))
  /\ LET ns == JsonParse(file)
         noteIndex == FindIndex(ns, call[p].id)
     IN  IF noteIndex = 0
         THEN Throw(p, NotFoundException) /\ UNCHANGED clock
         ELSE \E t \in Now :
                /\ clock' = t
                /\ CallWriteNotes(p, SetAt(ns, noteIndex,
                     UpdatedNote(ns[noteIndex], call[p].updateNoteDto, Date(t))))
  /\ UNCHANGED <<uuids, issued, calls, call, lastCreated, missed, removed, stale, gone>>

\* a remove that answers 204 whether or not it found the note
RemoveLoadedIdempotent(p) ==
  /\ pc[p] = "read"
  /\ call[p].name = "remove"
  /\ ParseOk(file)
  /\ Load(p, JsonParse(file))
  /\ LET ns == JsonParse(file)
         noteIndex == FindIndex(ns, call[p].id)
     IN  CallWriteNotes(p, IF noteIndex = 0 THEN ns ELSE Splice(ns, noteIndex))
  /\ UNCHANGED <<clock, uuids, issued, calls, call, lastCreated, missed, removed, stale, gone>>

RemoveLoaded(p) ==
  /\ pc[p] = "read"
  /\ call[p].name = "remove"
  /\ ParseOk(file)
  /\ Load(p, JsonParse(file))
  /\ LET ns == JsonParse(file)
         noteIndex == FindIndex(ns, call[p].id)
     IN  IF noteIndex = 0
         THEN Throw(p, NotFoundException)
         ELSE CallWriteNotes(p, Splice(ns, noteIndex))
  /\ UNCHANGED <<clock, uuids, issued, calls, call, lastCreated, missed, removed, stale, gone>>

\* a writeNotes that keeps what others have stored: it takes over the records
\* of the file that its own array has no id for
WriteOpenMerging(p) ==
  /\ pc[p] = "open"
  /\ file' = TruncatedText
  /\ pc' = [pc EXCEPT ![p] = "write"]
  /\ notes' = [notes EXCEPT ![p] =
        LET cur == IF ParseOk(file) THEN JsonParse(file) ELSE <<>>
        IN  notes[p] \o SelectSeq(cur,
              LAMBDA n : \A i \in 1..Len(notes[p]) : notes[p][i].id # n.id)]
  /\ lastCreated' = NoNote
  /\ UNCHANGED <<clock, uuids, issued, calls, call, loaded, result, missed,
                 removed, stale, gone, lastSaved, io>>

\* writeNotes, first step: writeFile opens the file, which empties it
WriteOpen(p) ==
  /\ pc[p] = "open"
  /\ file' = TruncatedText
  /\ pc' = [pc EXCEPT ![p] = "write"]
  /\ lastCreated' = NoNote
  /\ UNCHANGED <<clock, uuids, issued, calls, call, loaded, notes, result, missed,
                 removed, stale, gone, lastSaved, io>>

\* what the call returns once writeNotes has resolved
ReturnValue(c, ld, ns) ==
  CASE c.name = "create" -> Returned(c.newNote)
    [] c.name = "update" -> Returned(ns[FindIndex(ld, c.id)])
    [] OTHER -> ReturnedVoid

\* how many records of `ns` have the id
CountId(ns, id) == Cardinality({i \in 1..Len(ns) : ns[i].id = id})

\* the ids request p's write may bring back although a remove returned for
\* them: those removed after p had read, and the one p's patch carries
Excused(p) ==
  stale[p] \cup (IF call[p].name = "update" /\ "id" \in DOMAIN call[p].updateNoteDto
                 THEN {call[p].updateNoteDto.id} ELSE {})

\* writeNotes, second step: the text is written, the promise resolves and
\* the call returns
WriteData(p) ==
  /\ pc[p] = "write"
  /\ file' = WriteAtStart(JsonStringify(notes[p]), file)
  /\ Return(p, ReturnValue(call[p], loaded[p], notes[p]))
  /\ lastCreated' = IF call[p].name = "create" THEN call[p].newNote ELSE NoNote
  /\ lastSaved' = Saved(notes[p])
  /\ UNCHANGED io
  /\ missed' = [q \in Procs |->
                 IF q # p /\ pc[q] = "open" /\ call[p].name = "create"
                 THEN missed[q] \cup {call[p].newNote.id}
                 ELSE missed[q]]
  /\ removed' = IF call[p].name = "remove" THEN removed \cup {call[p].id}
                ELSE removed
  /\ stale' = [q \in Procs |->
                IF q # p /\ pc[q] \in {"open", "write"} /\ call[p].name = "remove"
                THEN stale[q] \cup {call[p].id}
                ELSE stale[q]]
  /\ gone' = (gone \ ({notes[p][i].id : i \in 1..Len(notes[p])} \cap Excused(p)))
               \cup (IF call[p].name = "remove" /\ CountId(loaded[p], call[p].id) = 1
                     THEN {call[p].id} ELSE {})
  /\ UNCHANGED <<clock, uuids, issued, calls, call, loaded, notes>>

\* the process ends (a crash, a kill, a shutdown) with whatever calls are in
\* flight, and a new one starts: the repository's constructor runs
\* ensureDataFileExists again
Restart ==
  /\ file' = ensureDataFileExists(ExistingFile(file))
  /\ pc' = [p \in Procs |-> "idle"]
  /\ call' = [p \in Procs |-> NoCall]
  /\ loaded' = [p \in Procs |-> <<>>]
  /\ notes' = [p \in Procs |-> <<>>]
  /\ result' = [p \in Procs |-> NoResult]
  /\ missed' = [p \in Procs |-> {}]
  /\ stale' = [p \in Procs |-> {}]
  /\ io' = [p \in Procs |-> <<>>]
  /\ UNCHANGED <<clock, uuids, issued, calls, lastCreated, removed, gone, lastSaved>>

Next ==
  \/ Restart
  \/ \E p \in Procs :
       \/ CreateBegin(p)
       \/ FindAllBegin(p)
       \/ FindOneBegin(p)
       \/ UpdateBegin(p)
       \/ RemoveBegin(p)
       \/ ReadFails(p)
       \/ CreateLoaded(p)
       \/ FindAllLoaded(p)
       \/ FindOneLoaded(p)
       \/ UpdateLoaded(p)
       \/ RemoveLoaded(p)
       \/ WriteOpen(p)
       \/ WriteData(p)

Spec == Init /\ [][Next]_vars

\* ------------------------------------------------ one call at a time
\* no call is in flight
Quiet == \A q \in Procs : pc[q] \in {"idle", "done"}

\* a request comes in when no call is in flight
BeginAlone(p) ==
  /\ Quiet
  /\ \/ CreateBegin(p)
     \/ FindAllBegin(p)
     \/ FindOneBegin(p)
     \/ UpdateBegin(p)
     \/ RemoveBegin(p)

\* the service when every call ends before the next begins
NextSequential ==
  \E p \in Procs :
       \/ BeginAlone(p)
       \/ CreateLoaded(p)
       \/ FindAllLoaded(p)
       \/ FindOneLoaded(p)
       \/ UpdateLoaded(p)
       \/ RemoveLoaded(p)
       \/ WriteOpen(p)
       \/ WriteData(p)

SpecSequential == Init /\ [][NextSequential]_vars

\* ------------------------------------------- patches that hold undefined
\* patches of the type UpdateNoteDto (title?: string, content?: string,
\* tags?: string[]) in which a key is present and its value is undefined
UndefinedPatches ==
  { [title |-> Undefined("title")],
    [content |-> "C3", tags |-> Undefined("tags")] }

\* update called with such a patch, up to `await this.repository.readNotes()`
UpdateBeginUndefined(p) ==
  /\ Quiet
  /\ \E id \in KnownIds, dto \in UndefinedPatches :
       Start(p, [name |-> "update", id |-> id, updateNoteDto |-> dto])
  /\ UNCHANGED <<uuids, issued, clock>>

\* the service, one call at a time, with callers that pass such patches
NextPartial ==
  \E p \in Procs :
       \/ BeginAlone(p)
       \/ UpdateBeginUndefined(p)
       \/ CreateLoaded(p)
       \/ FindAllLoaded(p)
       \/ FindOneLoaded(p)
       \/ UpdateLoaded(p)
       \/ RemoveLoaded(p)
       \/ WriteOpen(p)
       \/ WriteData(p)

SpecPartial == Init /\ [][NextPartial]_vars

\* ------------------------------------------------------ AppController
\* what the injected AppService.getHello returns: the real service's
\* greeting, or the value of the mock the tests inject
HelloReplies == {"Hello World!", "Mocked Hello!"}

\* a synchronous handler of AppController runs from request to response in
\* one step, on a free slot; `served` is what it called, `r` what it returns
Handle(p, c, served, r) ==
  /\ pc[p] \in {"idle", "done"}
  /\ p = FirstFree
  /\ calls < MaxCalls
  /\ calls' = calls + 1
  /\ call' = [call EXCEPT ![p] = c]
  /\ pc' = [pc EXCEPT ![p] = "done"]
  /\ loaded' = [loaded EXCEPT ![p] = <<>>]
  /\ notes' = [notes EXCEPT ![p] = <<>>]
  /\ result' = [result EXCEPT ![p] = r]
  /\ missed' = [missed EXCEPT ![p] = {}]
  /\ stale' = [stale EXCEPT ![p] = {}]
  /\ io' = [io EXCEPT ![p] = served]
  /\ UNCHANGED <<file, clock, uuids, issued, lastCreated, removed, gone, lastSaved>>

\* a getHello that asks the service twice
GetHelloTwice(p) ==
  \E v \in HelloReplies :
    Handle(p, [name |-> "getHello", reply |-> v], <<"getHello", "getHello">>,
           Returned(v))

\* GET /: return this.appService.getHello()
GetHello(p) ==
  \E v \in HelloReplies :
    Handle(p, [name |-> "getHello", reply |-> v], <<"getHello">>, Returned(v))

\* GET /goodbye: return 'Goodbye World!'
GetGoodbye(p) ==
  Handle(p, [name |-> "getGoodbye"], <<>>, Returned("Goodbye World!"))

\* AppController next to the notes service, whose calls come one at a time
NextApp ==
  \E p \in Procs :
       \/ GetHello(p)
       \/ GetGoodbye(p)
       \/ BeginAlone(p)
       \/ CreateLoaded(p)
       \/ FindAllLoaded(p)
       \/ FindOneLoaded(p)
       \/ UpdateLoaded(p)
       \/ RemoveLoaded(p)
       \/ WriteOpen(p)
       \/ WriteData(p)

SpecApp == Init /\ [][NextApp]_vars

\* ------------------------------------------------- a disk that fails
\* readNotes: readFile rejects (the file cannot be opened or read), which
\* every service method lets through
ReadUnavailable(p) ==
  /\ pc[p] = "read"
  /\ Throw(p, SystemError)
  /\ UNCHANGED <<clock, uuids, issued, calls, call, loaded, lastCreated, missed, removed, stale, gone>>

\* writeNotes: writeFile rejects because the file cannot be opened for
\* writing; create, update and remove let the error through
WriteRefused(p) ==
  /\ pc[p] = "open"
  /\ Throw(p, SystemError)
  /\ UNCHANGED <<clock, uuids, issued, calls, call, loaded, lastCreated, missed, removed, stale, gone>>

\* writeNotes: writeFile rejects after it has opened the file, because the
\* data cannot be written (the disk is full)
WriteAborted(p) ==
  /\ pc[p] = "write"
  /\ Throw(p, SystemError)
  /\ UNCHANGED <<clock, uuids, issued, calls, call, loaded, lastCreated, missed, removed, stale, gone>>

\* the service on a disk that lets no write through
NextFaulty ==
  \E p \in Procs :
       \/ CreateBegin(p)
       \/ FindAllBegin(p)
       \/ FindOneBegin(p)
       \/ UpdateBegin(p)
       \/ RemoveBegin(p)
       \/ ReadFails(p)
       \/ ReadUnavailable(p)
       \/ CreateLoaded(p)
       \/ FindAllLoaded(p)
       \/ FindOneLoaded(p)
       \/ UpdateLoaded(p)
       \/ RemoveLoaded(p)
       \/ WriteRefused(p)
       \/ WriteOpen(p)
       \/ WriteAborted(p)

SpecFaulty == Init /\ [][NextFaulty]_vars

\* --------------------------------------------------- a file not of notes
\* data/notes.json holding valid JSON that is not an array of notes: the text
\* [{"id": ...}], an object with none of title, content, tags, createdAt and
\* updatedAt (written by hand or by another program)
ForeignRecord == [id |-> NoSuchId + 1]
ForeignText == <<LBracket, ObjectTok(ForeignRecord), RBracket>>

\* the program starts on that file: ensureDataFileExists finds it and leaves it
InitForeign ==
  Constructed([text |-> ensureDataFileExists(ExistingFile(ForeignText)),
               uuids |-> 0])

SpecForeign == InitForeign /\ [][Next]_vars

\* ---------------------------------------------------------------- claims
\* the collection a readNotes would return now (none while the text does not
\* parse)
DurableNotes == IF ParseOk(file) THEN JsonParse(file) ELSE <<>>

IdsOf(ns) == {ns[i].id : i \in 1..Len(ns)}

\* request p's findOne gets its answer in this step
FindOneAnswers(p) ==
  pc[p] = "read" /\ pc'[p] = "done" /\ call[p].name = "findOne"

\* request p's writeNotes resolves in this step and its call returns
WriteResolves(p) == pc[p] = "write" /\ pc'[p] = "done"

\* C1: once create has returned note n and nothing has written to the file
\* since, findOne(n.id) returns a record equal to n in every field.
C1_RoundTrip ==
  [][\A p \in Procs :
       (FindOneAnswers(p) /\ lastCreated # NoNote /\ call[p].id = lastCreated.id)
         => result'[p] = Returned(lastCreated)]_vars

\* C2: in every state in which the file holds a collection, no two of its
\* records have the same id.
C2_UniqueIds ==
  \A i, j \in 1..Len(DurableNotes) :
    i # j => DurableNotes[i].id # DurableNotes[j].id

\* C3: when an update (whose patch leaves the id alone) read the file before a
\* create returned and calls writeNotes after it, the update returns its record
\* all the same, and after its write the durable collection is without the
\* created note.
C3_LostCreate ==
  [][\A p \in Procs :
       (WriteResolves(p) /\ call[p].name = "update"
          /\ "id" \notin DOMAIN call[p].updateNoteDto)
         => /\ result'[p].kind = "ok"
            /\ \A b \in missed[p] : ~(ParseOk(file') /\ b \in IdsOf(JsonParse(file')))]_vars

\* C3 witness: update(A) and create(B) have both returned, the update had read
\* before the create returned, and the file holds exactly the update's
\* collection, in which B is missing.
C3_Witness ==
  \E p, q \in Procs :
    /\ pc[p] = "done" /\ call[p].name = "update" /\ result[p].kind = "ok"
    /\ "id" \notin DOMAIN call[p].updateNoteDto
    /\ pc[q] = "done" /\ call[q].name = "create" /\ result[q].kind = "ok"
    /\ call[q].newNote.id \in missed[p]
    /\ file = JsonStringify(notes[p])
    /\ call[q].newNote.id \notin IdsOf(DurableNotes)
    /\ call[p].id \in IdsOf(DurableNotes)

\* C4: while a writeNotes is under way, the text a readNotes gets is a
\* complete document: JSON.parse does not throw.
C4_LoadSeesCompleteFile ==
  \A p, q \in Procs :
    (p # q /\ pc[p] = "read" /\ pc[q] = "write") => ParseOk(file)

\* C5 as claimed: once remove(id) has returned, no later state of the durable
\* collection holds a record with that id.
C5_RemovedNeverBack == removed \cap IdsOf(DurableNotes) = {}

\* C5 as amended: once remove(id) has returned for a collection that held one
\* record with that id, the durable collection holds a record with that id
\* again only after a write by a request that had read the file before that
\* remove returned, or by an update whose patch carries that id.
C5_RemovedStaysGone == gone \cap IdsOf(DurableNotes) = {}

\* C5 witness: a remove has returned, a later call has written the file, and
\* the removed id is still out of the durable collection, which is not empty.
C5_Witness ==
  \E p, q \in Procs :
    /\ p # q
    /\ pc[p] = "done" /\ call[p].name = "remove" /\ result[p].kind = "ok"
    /\ call[p].id \in gone
    /\ pc[q] = "done" /\ call[q].name \in {"create", "update"}
    /\ result[q].kind = "ok"
    /\ call[p].id \notin IdsOf(loaded[q])
    /\ file = JsonStringify(notes[q])

\* request p has read the file and found its target: it is in writeNotes, or
\* has returned
Proceeded(p) ==
  pc[p] \in {"open", "write"} \/ (pc[p] = "done" /\ result[p].kind = "ok")

\* request p has read the file: readNotes returned loaded[p] to it
HasLoaded(p) ==
  pc[p] \in {"open", "write"} \/ (pc[p] = "done" /\ result[p] # SyntaxError)

\* the index of request p's target in what it loaded
Target(p) == FindIndex(loaded[p], call[p].id)

\* C6: the record update writes and returns has the id and the createdAt of
\* the record it loaded, whatever keys the patch carries.
C6_IdCreatedAtKept ==
  \A p \in Procs :
    (call[p].name = "update" /\ Proceeded(p)) =>
      /\ notes[p][Target(p)].id = loaded[p][Target(p)].id
      /\ notes[p][Target(p)].createdAt = loaded[p][Target(p)].createdAt

\* C7: in the record update writes and returns, each of title, content and
\* tags that the patch does not carry has the value it had in the loaded
\* record, and each that the patch carries has the patch's value.
C7_AbsentFieldsKept ==
  \A p \in Procs :
    (call[p].name = "update" /\ Proceeded(p)) =>
      /\ \A k \in {"title", "content", "tags"} :
           notes[p][Target(p)][k] =
             IF k \in DOMAIN call[p].updateNoteDto
             THEN call[p].updateNoteDto[k]
             ELSE loaded[p][Target(p)][k]
      /\ pc[p] = "done" => result[p] = Returned(notes[p][Target(p)])

\* C7 witness: an update with a patch of the title alone has returned; the
\* title is the patch's and differs from the loaded one, content and tags are
\* the loaded ones.
C7_Witness ==
  \E p \in Procs :
    /\ pc[p] = "done" /\ call[p].name = "update" /\ result[p].kind = "ok"
    /\ DOMAIN call[p].updateNoteDto = {"title"}
    /\ result[p].value.title = "Z"
    /\ loaded[p][Target(p)].title = "T1"
    /\ result[p].value.content = loaded[p][Target(p)].content
    /\ result[p].value.tags = <<"a">>

\* C8: findOne, update and remove throw NotFoundException whenever the
\* collection they loaded has no record with the id.
C8_NotFound ==
  \A p \in Procs :
    (call[p].name \in {"findOne", "update", "remove"} /\ HasLoaded(p)
       /\ call[p].id \notin IdsOf(loaded[p]))
      => (pc[p] = "done" /\ result[p] = NotFoundException)

\* C8 witness: an update and a remove have both thrown NotFoundException on a
\* loaded collection that is not empty.
C8_Witness ==
  \E p, q \in Procs :
    /\ pc[p] = "done" /\ call[p].name = "update"
    /\ result[p] = NotFoundException /\ Len(loaded[p]) > 0
    /\ pc[q] = "done" /\ call[q].name = "remove"
    /\ result[q] = NotFoundException /\ Len(loaded[q]) > 0

\* C9: the step at which update or remove throws NotFoundException leaves the
\* file as it is, and the call has not been in writeNotes before it.
C9_NotFoundWritesNothing ==
  [][\A p \in Procs :
       (call[p].name \in {"update", "remove"} /\ pc[p] # "done"
          /\ pc'[p] = "done" /\ result'[p] = NotFoundException)
         => (file' = file /\ pc[p] = "read")]_vars

\* C9 witness: a remove has thrown NotFoundException and the file still holds
\* the collection, not empty, that the call loaded.
C9_Witness ==
  \E p \in Procs :
    /\ pc[p] = "done" /\ call[p].name = "remove"
    /\ result[p] = NotFoundException
    /\ Len(loaded[p]) > 0
    /\ file = JsonStringify(loaded[p])

\* C10: remove(X), having loaded N records among which X is, writes N-1
\* records, none with id X: the loaded records but one, in their order.
C10_RemoveExactlyOne ==
  \A p \in Procs :
    (call[p].name = "remove" /\ Proceeded(p)) =>
      /\ Len(notes[p]) = Len(loaded[p]) - 1
      /\ call[p].id \notin IdsOf(notes[p])
      /\ \E i \in 1..Len(loaded[p]) :
           notes[p] = [j \in 1..(Len(loaded[p]) - 1) |->
                         IF j < i THEN loaded[p][j] ELSE loaded[p][j + 1]]

\* ------------------------------------------------------------- search
\* the characters of the strings notes and queries are made of
Chars(s) ==
  CASE s = "T1" -> <<"T", "1">>
    [] s = "T2" -> <<"T", "2">>
    [] s = "C1" -> <<"C", "1">>
    [] s = "C2" -> <<"C", "2">>
    [] s = "C3" -> <<"C", "3">>
    [] s = "t1" -> <<"t", "1">>
    [] s = "" -> <<>>
    [] OTHER -> <<s>>

\* String.prototype.toLowerCase, character by character
toLowerCase(cs) ==
  [i \in 1..Len(cs) |-> CASE cs[i] = "T" -> "t"
                          [] cs[i] = "C" -> "c"
                          [] cs[i] = "Z" -> "z"
                          [] OTHER -> cs[i]]

\* String.prototype.includes
Includes(cs, term) ==
  \/ Len(term) = 0
  \/ \E i \in 1..(Len(cs) - Len(term) + 1) :
       SubSeq(cs, i, i + Len(term) - 1) = term

\* the term occurs in the field, letter case aside
OccursIn(term, field) ==
  Includes(toLowerCase(Chars(field)), toLowerCase(Chars(term)))

\* the documented search: the term occurs in the title, in the content or
\* in one of the tags
SearchMatches(note, term) ==
  \/ OccursIn(term, note.title)
  \/ OccursIn(term, note.content)
  \/ \E i \in 1..Len(note.tags) : OccursIn(term, note.tags[i])

\* a findAll that came with a non-empty ?search= has returned
SearchAnswered(p) ==
  /\ pc[p] = "done"
  /\ call[p].name = "findAll"
  /\ result[p].kind = "ok"
  /\ "search" \in DOMAIN call[p].query
  /\ call[p].query.search # ""

\* C11: a list request with a non-empty search term returns exactly the
\* records it loaded in which the term occurs, letter case aside, in the
\* title, the content or a tag, in the order of the collection.
C11_SearchFilters ==
  \A p \in Procs :
    SearchAnswered(p) =>
      result[p].value =
        SelectSeq(loaded[p], LAMBDA n : SearchMatches(n, call[p].query.search))

\* a findAll that came without a search term, or with an empty one
NoSearch(p) ==
  /\ call[p].name = "findAll"
  /\ "search" \in DOMAIN call[p].query => call[p].query.search = ""

\* C12: a findAll without a search term, or with an empty one, returns every
\* record the file holds when it is read, in the order of the file.
C12_FindAllReturnsAll ==
  [][\A p \in Procs :
       (/\ pc[p] = "read"
        /\ NoSearch(p)
        /\ pc'[p] = "done"
        /\ result'[p].kind = "ok")
       => /\ Len(result'[p].value) = Len(file) - 2
          /\ \A i \in 1..(Len(file) - 2) : result'[p].value[i] = file[i + 1].obj
    ]_vars

C12_Witness ==
  \E p \in Procs :
    /\ pc[p] = "done"
    /\ NoSearch(p)
    /\ result[p].kind = "ok"
    /\ Len(result[p].value) = 3

\* the instant a timestamp names, whether a Date or an ISO string
getTime(v) == v[2]

\* C13: every record of the file has updatedAt >= createdAt, and the record
\* create returns has updatedAt equal to createdAt.
C13_UpdatedNotBeforeCreated ==
  /\ \A i \in 1..Len(DurableNotes) :
       getTime(DurableNotes[i].updatedAt) >= getTime(DurableNotes[i].createdAt)
  /\ \A p \in Procs :
       (pc[p] = "done" /\ call[p].name = "create" /\ result[p].kind = "ok")
       => result[p].value.updatedAt = result[p].value.createdAt

\* an update has found its target and built the record it stores
Updating(p) == call[p].name = "update" /\ Proceeded(p)

\* C14 as stated: every successful update stores a record whose updatedAt
\* is strictly later than the updatedAt the record had before.
C14_StrictlyLater ==
  \A p \in Procs :
    Updating(p) =>
      getTime(notes[p][Target(p)].updatedAt)
        > getTime(loaded[p][Target(p)].updatedAt)

\* C14: every successful update stores and returns a record whose updatedAt
\* is the reading of the clock taken during the update, which is never
\* earlier than the updatedAt the record had before (and is equal to it when
\* both readings fall in the same millisecond).
C14_NotEarlier ==
  \A p \in Procs :
    Updating(p) =>
      /\ notes[p][Target(p)].updatedAt[1] = "Date"
      /\ getTime(notes[p][Target(p)].updatedAt) <= clock
      /\ getTime(notes[p][Target(p)].updatedAt)
           >= getTime(loaded[p][Target(p)].updatedAt)
      /\ pc[p] = "done" =>
           result[p].value.updatedAt = notes[p][Target(p)].updatedAt

C14_Witness ==
  \E p \in Procs :
    /\ Updating(p)
    /\ pc[p] = "done"
    /\ getTime(result[p].value.updatedAt)
         > getTime(loaded[p][Target(p)].updatedAt)

\* C15: a successful update writes a collection as long as the loaded one,
\* with the merged record at the target's index and every other record as
\* loaded, and returns that merged record.
C15_UpdateInPlace ==
  \A p \in Procs :
    Updating(p) =>
      /\ Len(notes[p]) = Len(loaded[p])
      /\ \A j \in 1..Len(loaded[p]) :
           j # Target(p) => notes[p][j] = loaded[p][j]
      /\ notes[p][Target(p)] =
           UpdatedNote(loaded[p][Target(p)], call[p].updateNoteDto,
                       notes[p][Target(p)].updatedAt)
      /\ pc[p] = "done" => result[p] = Returned(notes[p][Target(p)])

C15_Witness ==
  \E p \in Procs :
    /\ Updating(p)
    /\ pc[p] = "done"
    /\ Target(p) = 1
    /\ Len(notes[p]) = 2
    /\ notes[p][2] = loaded[p][2]
    /\ result[p].value.title = "Z"

\* a create has loaded the collection and built the array it stores
Creating(p) == call[p].name = "create" /\ Proceeded(p)

\* C16: create writes the loaded collection with the new record appended
\* last, the earlier records unchanged and in order, and returns the new
\* record, which carries the generated id and the timestamps.
C16_CreateAppends ==
  \A p \in Procs :
    Creating(p) =>
      /\ Len(notes[p]) = Len(loaded[p]) + 1
      /\ \A j \in 1..Len(loaded[p]) : notes[p][j] = loaded[p][j]
      /\ notes[p][Len(notes[p])] = call[p].newNote
      /\ call[p].newNote.id \in 1..uuids
      /\ call[p].newNote.createdAt[1] = "Date"
      /\ getTime(call[p].newNote.createdAt) <= clock
      /\ call[p].newNote.updatedAt = call[p].newNote.createdAt
      /\ pc[p] = "done" => result[p] = Returned(call[p].newNote)

C16_Witness ==
  \E p \in Procs :
    /\ Creating(p)
    /\ pc[p] = "done"
    /\ Len(loaded[p]) = 2
    /\ result[p].value.id = 3

\* the tags create was called with: undefined (here none) when omitted
GivenTags(p) ==
  IF "tags" \in DOMAIN call[p].createNoteDto
  THEN call[p].createNoteDto.tags
  ELSE <<>>

\* C17: create called without tags stores and returns a record whose tags
\* is the empty sequence; called with tags, the record's tags are the given
\* ones in the given order.
C17_TagsDefault ==
  \A p \in Procs :
    Creating(p) =>
      /\ notes[p][Len(notes[p])].tags = GivenTags(p)
      /\ pc[p] = "done" => result[p].value.tags = GivenTags(p)

C17_Witness ==
  \E p, q \in Procs :
    /\ Creating(p) /\ pc[p] = "done"
    /\ Creating(q) /\ pc[q] = "done"
    /\ "tags" \notin DOMAIN call[p].createNoteDto
    /\ result[p].value.tags = <<>>
    /\ result[q].value.tags = <<"b", "a">>

\* the step in which the readNotes of request p settles
ReadSettles(p) == pc[p] = "read" /\ pc'[p] \in {"open", "done"}

\* C18: after a writeNotes(s) has resolved and until the next writeNotes is
\* called, every readNotes returns exactly s: the same records in the same
\* order.
C18_LoadReturnsSaved ==
  [][\A p \in Procs :
       (ReadSettles(p) /\ lastSaved.saved)
       => /\ result'[p] # SyntaxError
          /\ loaded'[p] = lastSaved.notes
    ]_vars

\* the step in which the process ends while request p, and no other, is
\* inside writeNotes with the file already opened
CrashInWrite(p) ==
  /\ pc[p] = "write"
  /\ \A q \in Procs \ {p} : pc[q] \notin {"open", "write"}
  /\ \A q \in Procs : pc'[q] = "idle"

\* C19: when the process ends part-way through a writeNotes, the file holds
\* afterwards the complete collection the request had loaded or the
\* complete new one, never a truncated or half-written text.
C19_CrashKeepsDocument ==
  [][\A p \in Procs :
       CrashInWrite(p)
       => /\ ParseOk(file')
          /\ file' \in {JsonStringify(loaded[p]), JsonStringify(notes[p])}
    ]_vars

\* a fresh installation on which nothing has been created yet
Fresh == uuids = 0

\* the step in which a new process has run the repository's constructor
Restarted == \A q \in Procs : pc'[q] = "idle"

\* what holds of a fresh installation: the constructor has made the file
\* '[]' (and would leave it so if run again), and the first call, when it
\* is a findAll, returns the empty array
C20_FreshIsEmpty ==
  /\ (Fresh /\ calls = 0) =>
       /\ file = JsonStringify(<<>>)
       /\ ensureDataFileExists(NoFile) = file
  /\ \A p \in Procs :
       (Fresh /\ calls = 1 /\ call[p].name = "findAll" /\ pc[p] = "done")
       => result[p] = Returned(<<>>)

\* C20: initialization creates the file holding the empty array when it is
\* absent and leaves an existing file exactly as it is, however often it
\* runs; so the first findAll of a fresh installation returns the empty
\* array.
C20_InitializeIdempotent ==
  /\ []C20_FreshIsEmpty
  /\ [][Restarted => file' = file]_vars

C20_Witness ==
  /\ calls = MaxCalls
  /\ \A q \in Procs : pc[q] = "idle"
  /\ ParseOk(file)
  /\ Len(JsonParse(file)) = 3

\* the keys of the Note interface
NoteKeys == {"id", "title", "content", "tags", "createdAt", "updatedAt"}

\* the value has the shape of a Note
IsNote(o) == DOMAIN o = NoteKeys

\* C21: readNotes throws when the text of the file cannot be parsed into an
\* array of notes, and never returns a value that is not an array of notes.
C21_LoadReturnsNotes ==
  \A p \in Procs :
    HasLoaded(p) => \A i \in 1..Len(loaded[p]) : IsNote(loaded[p][i])

\* the text is not that of an array of notes: it does not parse, or an
\* element of the array is no note
Corrupt(text) ==
  \/ ~ParseOk(text)
  \/ \E i \in 1..Len(JsonParse(text)) : ~IsNote(JsonParse(text)[i])

\* C22: an operation that finds the content of the file corrupt fails with
\* the error of the parse and leaves the file exactly as it was: nothing
\* repairs, rewrites or resets it.
C22_CorruptLeftAlone ==
  [][\A p \in Procs :
       (ReadSettles(p) /\ Corrupt(file))
       => /\ result'[p] = SyntaxError
          /\ pc'[p] = "done"
          /\ file' = file
    ]_vars

\* the step in which a repository call of request p fails
StorageFails(p) ==
  /\ pc[p] \in {"read", "open", "write"}
  /\ pc'[p] = "done"
  /\ result'[p].kind \notin {"ok", "NotFoundException"}

\* C23: when readNotes or writeNotes fails inside a service method, the
\* method throws that error as it is (the SyntaxError of the parse, or the
\* error of the file system), and calls the repository no more: no retry,
\* no other access to the file.
C23_ErrorsPropagate ==
  [][\A p \in Procs :
       StorageFails(p)
       => /\ result'[p] \in {SyntaxError, SystemError}
          /\ result'[p] = SyntaxError => (pc[p] = "read" /\ ~ParseOk(file))
          /\ file' = file
          /\ io'[p] = IF pc[p] = "read"
                       THEN <<"readNotes">>
                       ELSE <<"readNotes", "writeNotes">>
    ]_vars

C23_Witness ==
  \E p, q \in Procs :
    /\ pc[p] = "done" /\ call[p].name = "create"
    /\ result[p] = SystemError
    /\ io[p] = <<"readNotes", "writeNotes">>
    /\ pc[q] = "done" /\ result[q] = SyntaxError
    /\ io[q] = <<"readNotes">>

\* C24: NotFoundException is thrown only by findOne, update and remove, and
\* only when the collection the call loaded has no record with the id;
\* create and findAll never throw it.
C24_NotFoundOnlyWhenAbsent ==
  \A p \in Procs :
    (pc[p] = "done" /\ result[p] = NotFoundException)
    => /\ call[p].name \in {"findOne", "update", "remove"}
       /\ \A i \in 1..Len(loaded[p]) : loaded[p][i].id # call[p].id

C24_Witness ==
  \E p \in Procs :
    /\ pc[p] = "done"
    /\ call[p].name = "findOne"
    /\ result[p] = NotFoundException
    /\ Len(loaded[p]) = 2

\* C25: every operation reads the file anew: the collection it acts on is
\* what the file holds at the instant of its own readNotes, after the
\* operation has begun, never an array kept from an earlier call.
C25_LoadsAnew ==
  [][\A p \in Procs :
       (ReadSettles(p) /\ result'[p] # SyntaxError)
       => /\ io[p] = <<"readNotes">>
          /\ Len(loaded'[p]) = Len(file) - 2
          /\ \A i \in 1..(Len(file) - 2) : loaded'[p][i] = file[i + 1].obj
    ]_vars

C25_Witness ==
  \E p \in Procs :
    /\ Updating(p)
    /\ call[p].id = 3
    /\ Len(loaded[p]) = 3

\* request p, a findAll or a findOne, takes the step
ReaderSteps(p) ==
  /\ pc'[p] # pc[p]
  /\ call'[p].name \in {"findAll", "findOne"}

\* C26: findAll and findOne never write: no step of either changes the file
\* or calls writeNotes, whether the call returns or throws.
C26_ReadersDoNotWrite ==
  [][\A p \in Procs :
       ReaderSteps(p)
       => /\ file' = file
          /\ \A i \in 1..Len(io'[p]) : io'[p][i] # "writeNotes"
    ]_vars

C26_Witness ==
  \E p, q \in Procs :
    /\ pc[p] = "done" /\ call[p].name = "findOne" /\ result[p].kind = "ok"
    /\ pc[q] = "done" /\ call[q].name = "findOne"
    /\ result[q] = NotFoundException
    /\ Len(DurableNotes) = 2

Mutating(p) == call[p].name \in {"create", "update", "remove"}

\* the repository calls of request p so far, by where the call stands
C27_OneLoadOneSave ==
  \A p \in Procs :
    /\ pc[p] = "idle" => io[p] = <<>>
    /\ pc[p] = "read" => io[p] = <<"readNotes">>
    /\ pc[p] \in {"open", "write"} =>
         (Mutating(p) /\ io[p] = <<"readNotes", "writeNotes">>)
    /\ pc[p] = "done" =>
         io[p] = IF Mutating(p) /\ result[p].kind = "ok"
                 THEN <<"readNotes", "writeNotes">>
                 ELSE <<"readNotes">>

\* the step in which create, update or remove returns its result
MutationReturns(p) ==
  /\ pc[p] # "done"
  /\ pc'[p] = "done"
  /\ Mutating(p)
  /\ result'[p].kind = "ok"

\* C27: every operation calls readNotes exactly once, first; create, update
\* and remove then call writeNotes exactly once (not at all when they throw
\* NotFoundException) and return only when writeFile has written the data;
\* findAll and findOne do not call writeNotes.
C27_ReadThenWrite ==
  /\ []C27_OneLoadOneSave
  /\ [][\A p \in Procs :
          MutationReturns(p)
          => /\ pc[p] = "write"
             /\ Len(file') >= Len(notes[p]) + 2
             /\ SubSeq(file', 1, Len(notes[p]) + 2) = JsonStringify(notes[p])
       ]_vars

C27_Witness ==
  \E p, q \in Procs :
    /\ pc[p] = "done" /\ call[p].name = "remove" /\ result[p].kind = "ok"
    /\ io[p] = <<"readNotes", "writeNotes">>
    /\ pc[q] = "done" /\ call[q].name = "update"
    /\ result[q] = NotFoundException
    /\ io[q] = <<"readNotes">>

\* the abstract collection after the call c has returned r on the abstract
\* collection s: create appends the record it returns, update puts the
\* record it returns in the place of the one with the id, remove deletes the
\* record with the id
AbstractAfter(c, r, s) ==
  CASE c.name = "create" -> Append(s, r.value)
    [] c.name = "update" ->
         [i \in 1..Len(s) |->
            IF s[i].id = c.id /\ \A j \in 1..(i - 1) : s[j].id # c.id
            THEN r.value ELSE s[i]]
    [] c.name = "remove" -> SelectSeq(s, LAMBDA n : n.id # c.id)
    [] OTHER -> s

\* C28: with one call at a time, the file after a create, update or remove
\* holds the abstract sequence (append on create, replace in place on
\* update, delete on remove) made from the sequence it held before, and
\* findAll returns exactly the sequence the file holds.
C28_RefinesSequence ==
  [][\A p \in Procs :
       /\ MutationReturns(p)
          => /\ ParseOk(file')
             /\ JsonParse(file') = AbstractAfter(call[p], result'[p], loaded[p])
       /\ (ReadSettles(p) /\ call[p].name = "findAll")
          => result'[p] = Returned(DurableNotes)
    ]_vars

\* the step in which request p, a create, makes its record
CreateMakesRecord(p) == pc[p] # "read" /\ pc'[p] = "read" /\ call'[p].name = "create"

\* the record a create has made has an id that no record it loaded has, and
\* the create returns the record with that id
C29_NewIdNotLoaded ==
  \A p \in Procs :
    Creating(p) =>
      /\ \A i \in 1..Len(loaded[p]) : loaded[p][i].id # call[p].newNote.id
      /\ pc[p] = "done" => result[p].value.id = call[p].newNote.id

\* C29: the ids of the records that create calls make, one after another or
\* overlapping, are pairwise distinct, and none is the id of a record the
\* collection holds already.
C29_DistinctIds ==
  /\ []C29_NewIdNotLoaded
  /\ [][\A p \in Procs :
          CreateMakesRecord(p)
          => /\ call'[p].newNote.id \notin issued
             /\ call'[p].newNote.id \notin IdsOf(DurableNotes)
       ]_vars

C29_Witness ==
  \E p, q \in Procs :
    /\ p # q
    /\ Creating(p) /\ pc[p] = "done"
    /\ Creating(q) /\ pc[q] = "done"
    /\ Len(loaded[p]) = 0
    /\ Len(loaded[q]) = 0
    /\ result[p].value.id # result[q].value.id
    /\ issued = {result[p].value.id, result[q].value.id}

\* the step in which request p is handled by the AppController method `name`
Handled(p, name) ==
  /\ call'[p] # call[p] \/ calls' # calls
  /\ pc'[p] = "done"
  /\ call'[p].name = name
  /\ \A q \in Procs \ {p} : call'[q] = call[q] /\ pc'[q] = pc[q]

\* C30: getHello calls AppService.getHello exactly once and returns what it
\* gave, unchanged; getGoodbye returns 'Goodbye World!' and calls nothing;
\* neither reads the notes nor changes the file.
C30_AppController ==
  [][\A p \in Procs :
       /\ Handled(p, "getHello")
          => /\ io'[p] = <<"getHello">>
             /\ result'[p] = Returned(call'[p].reply)
             /\ file' = file
       /\ Handled(p, "getGoodbye")
          => /\ io'[p] = <<>>
             /\ result'[p] = Returned("Goodbye World!")
             /\ file' = file
    ]_vars

C30_Witness ==
  \E p, q \in Procs :
    /\ pc[p] = "done" /\ call[p].name = "getHello"
    /\ result[p] = Returned("Mocked Hello!")
    /\ io[p] = <<"getHello">>
    /\ pc[q] = "write"

\* C31: the records of the durable collection stand in the order of their
\* createdAt: no record stands before one that was created earlier.
C31_OrderedByCreatedAt ==
  \A i, j \in 1..Len(DurableNotes) :
    i < j => getTime(DurableNotes[i].createdAt) <= getTime(DurableNotes[j].createdAt)

\* the step in which request p, a remove, returns
RemoveReturns(p) ==
  pc[p] = "write" /\ pc'[p] = "done" /\ call[p].name = "remove"

\* C32 as claimed: a remove returns for an id only if no remove has returned
\* for that id before: of the remove calls for one id, overlapping or not, at
\* most one succeeds.
C32_RemoveSucceedsOnce ==
  [][\A p \in Procs : RemoveReturns(p) => call[p].id \notin removed]_vars

\* the step in which request p, a remove, gets the collection it loads
RemoveLoads(p) ==
  /\ pc[p] = "read" /\ pc'[p] \in {"open", "done"}
  /\ call[p].name = "remove"
  /\ ParseOk(file)

\* C32 as amended: a remove(id) that loads the collection after a remove(id)
\* has returned, for a collection that held one record with the id, fails
\* with not-found, unless a call that had read the file before that remove
\* returned, or an update whose patch carries the id, has written since.
C32_RemoveAfterRemoveFails ==
  [][\A p \in Procs :
       (RemoveLoads(p) /\ call[p].id \in gone)
       => result'[p] = NotFoundException
    ]_vars

\* C32 witness: a remove has returned for an id and a second remove of that
\* id, which loaded what the first had written, has failed with not-found.
C32_Witness ==
  \E p, q \in Procs :
    /\ p # q
    /\ call[p].name = "remove" /\ pc[p] = "done" /\ result[p] = ReturnedVoid
    /\ call[q].name = "remove" /\ pc[q] = "done"
    /\ call[q].id = call[p].id
    /\ call[p].id \in gone
    /\ result[q] = NotFoundException
    /\ Len(loaded[q]) > 0
    /\ loaded[q] = notes[p]

\* the updatedAt readings of the records of ns that have the id
UpdatedAts(ns, id) == {getTime(ns[i].updatedAt) : i \in {k \in 1..Len(ns) : ns[k].id = id}}

\* request p, in writing the file, starts to replace what the file holds
WriteReplaces(p) == pc[p] = "open" /\ pc'[p] = "write" /\ ParseOk(file)

\* C33 as claimed: no write replaces the durable record of an id by a record
\* with an earlier updatedAt.
C33_UpdatedAtNeverDecreases ==
  [][\A p \in Procs :
       WriteReplaces(p)
       => \A id \in IdsOf(DurableNotes) \cap IdsOf(notes[p]) :
            \A old \in UpdatedAts(DurableNotes, id) :
              \E new \in UpdatedAts(notes[p], id) : new >= old
    ]_vars

\* C33 as amended: no call writes a record older than the version it loaded:
\* every record it writes under an id it loaded is no older than a record
\* it loaded under that id. The durable updatedAt of an id decreases only
\* when the writing call had loaded before the newer version was saved.
C33_NoOlderThanLoaded ==
  \A p \in Procs :
    (Mutating(p) /\ Proceeded(p)) =>
      \A id \in IdsOf(loaded[p]) \cap IdsOf(notes[p]) :
        \A new \in UpdatedAts(notes[p], id) :
          \E old \in UpdatedAts(loaded[p], id) : old <= new

\* C33 witness: an update has returned a record with a later updatedAt, and
\* a call that had loaded before it has then written the file, which holds
\* the record as that call loaded it.
C33_Witness ==
  \E p, q \in Procs :
    /\ p # q
    /\ Updating(q) /\ pc[q] = "done"
    /\ Mutating(p) /\ pc[p] = "done" /\ result[p].kind = "ok"
    /\ file = JsonStringify(notes[p])
    /\ result[q].value.id \in IdsOf(loaded[p]) \cap IdsOf(notes[p])
    /\ \A t \in UpdatedAts(DurableNotes, result[q].value.id) :
         t < getTime(result[q].value.updatedAt)

\* C34: an update whose patch holds undefined under a key leaves the stored
\* value of that key as it was, and every record of the durable collection
\* has all six fields of a Note.
C34_UndefinedLeavesStored ==
  /\ \A i \in 1..Len(DurableNotes) : IsNote(DurableNotes[i])
  /\ \A p \in Procs :
       Updating(p) =>
         \A k \in (PatchKeys \cap DOMAIN call[p].updateNoteDto)
                  \cap DOMAIN loaded[p][Target(p)] :
           call[p].updateNoteDto[k] = Undefined(k)
           => notes[p][Target(p)][k] = loaded[p][Target(p)][k]
====
